---- MODULE Spec2Model ----
(***************************************************************************)
(* State-machine model of src/hmac.rs (nss-gk-api): the hmac() driver and  *)
(* its three algorithm resolver functions.  The PKCS#11 provider (slot,    *)
(* key import, context, digest op/final), crate::init, the scoped handle   *)
(* wrappers and crate::hash live outside hmac.rs and are modelled from the *)
(* specification's capability contracts.                                   *)
(***************************************************************************)
EXTENDS Integers, Naturals, Sequences, FiniteSets, TLC

\* ------------------------------------------------------------------ bounds
NCalls == 2        \* concurrent callers in the concurrent specification
MaxHandles == 2    \* provider handle identities per kind (addresses are reused)
MaxKeyLen == 1     \* key lengths 0..MaxKeyLen

\* --------------------------------------------------------------- constants
NULL == 0
CKM_SHA256_HMAC == 593
CKM_SHA384_HMAC == 609
CKM_SHA512_HMAC == 625
CKM_SHA3_256_HMAC == 689
CKM_SHA3_384_HMAC == 705
CKM_SHA3_512_HMAC == 721

\* Lengths that may exceed 2^31 (usize, u32) are kept as two 16-bit limbs,
\* hi * 2^16 + lo, so that 2^32 - 1 and 2^32 are both representable.
LIMB == 2^16
usize(n) == [hi |-> n \div LIMB, lo |-> n % LIMB]
U32_MAX == [hi |-> LIMB - 1, lo |-> LIMB - 1]
LenSucc(n) == IF n.lo = LIMB - 1 THEN [hi |-> n.hi + 1, lo |-> 0]
              ELSE [hi |-> n.hi, lo |-> n.lo + 1]
LenLeq(a, b) == a.hi < b.hi \/ (a.hi = b.hi /\ a.lo <= b.lo)

\* pub enum HmacAlgorithm
HmacAlgorithm ==
  {"HMAC_SHA2_256", "HMAC_SHA2_384", "HMAC_SHA2_512",
   "HMAC_SHA3_256", "HMAC_SHA3_384", "HMAC_SHA3_512"}

\* crate::hash::HashAlgorithm, the variants hmac.rs names
HashAlgorithm ==
  {"SHA2_256", "SHA2_384", "SHA2_512", "SHA3_256", "SHA3_384", "SHA3_512"}

Ok(v) == [ok |-> TRUE, val |-> v, err |-> "none"]
Err(e) == [ok |-> FALSE, val |-> 0, err |-> e]

\* mutant: the SHA3-512 arm names the SHA2-512 mechanism
hmac_alg_to_ckm_copied_arm(alg) ==
  CASE alg = "HMAC_SHA2_256" -> Ok(CKM_SHA256_HMAC)
    [] alg = "HMAC_SHA2_384" -> Ok(CKM_SHA384_HMAC)
    [] alg = "HMAC_SHA2_512" -> Ok(CKM_SHA512_HMAC)
    [] alg = "HMAC_SHA3_256" -> Ok(CKM_SHA3_256_HMAC)
    [] alg = "HMAC_SHA3_384" -> Ok(CKM_SHA3_384_HMAC)
    [] alg = "HMAC_SHA3_512" -> Ok(CKM_SHA512_HMAC)

\* fn hmac_alg_to_ckm(alg) -> Result<u64, Error>
hmac_alg_to_ckm(alg) ==
  CASE alg = "HMAC_SHA2_256" -> Ok(CKM_SHA256_HMAC)
    [] alg = "HMAC_SHA2_384" -> Ok(CKM_SHA384_HMAC)
    [] alg = "HMAC_SHA2_512" -> Ok(CKM_SHA512_HMAC)
    [] alg = "HMAC_SHA3_256" -> Ok(CKM_SHA3_256_HMAC)
    [] alg = "HMAC_SHA3_384" -> Ok(CKM_SHA3_384_HMAC)
    [] alg = "HMAC_SHA3_512" -> Ok(CKM_SHA3_512_HMAC)

\* mutant: the SHA3-384 arm copied from the SHA3-256 arm
hmac_alg_to_hash_alg_copied_arm(alg) ==
  CASE alg = "HMAC_SHA2_256" -> [ok |-> TRUE, val |-> "SHA2_256", err |-> "none"]
    [] alg = "HMAC_SHA2_384" -> [ok |-> TRUE, val |-> "SHA2_384", err |-> "none"]
    [] alg = "HMAC_SHA2_512" -> [ok |-> TRUE, val |-> "SHA2_512", err |-> "none"]
    [] alg = "HMAC_SHA3_256" -> [ok |-> TRUE, val |-> "SHA3_256", err |-> "none"]
    [] alg = "HMAC_SHA3_384" -> [ok |-> TRUE, val |-> "SHA3_256", err |-> "none"]
    [] alg = "HMAC_SHA3_512" -> [ok |-> TRUE, val |-> "SHA3_512", err |-> "none"]

\* fn hmac_alg_to_hash_alg(alg) -> Result<HashAlgorithm, Error>
hmac_alg_to_hash_alg(alg) ==
  CASE alg = "HMAC_SHA2_256" -> [ok |-> TRUE, val |-> "SHA2_256", err |-> "none"]
    [] alg = "HMAC_SHA2_384" -> [ok |-> TRUE, val |-> "SHA2_384", err |-> "none"]
    [] alg = "HMAC_SHA2_512" -> [ok |-> TRUE, val |-> "SHA2_512", err |-> "none"]
    [] alg = "HMAC_SHA3_256" -> [ok |-> TRUE, val |-> "SHA3_256", err |-> "none"]
    [] alg = "HMAC_SHA3_384" -> [ok |-> TRUE, val |-> "SHA3_384", err |-> "none"]
    [] alg = "HMAC_SHA3_512" -> [ok |-> TRUE, val |-> "SHA3_512", err |-> "none"]

\* crate::hash::hash_alg_to_hash_len: the Hash Metadata Provider's length
\* lookup; `known` is whether the provider knows the hash identity.
hash_alg_to_hash_len(hash_alg, known) ==
  IF ~known THEN Err("UnsupportedAlgorithm")
  ELSE CASE hash_alg \in {"SHA2_256", "SHA3_256"} -> Ok(32)
         [] hash_alg \in {"SHA2_384", "SHA3_384"} -> Ok(48)
         [] hash_alg \in {"SHA2_512", "SHA3_512"} -> Ok(64)

\* fn hmac_alg_to_hmac_len(alg) -> Result<usize, Error>
hmac_alg_to_hmac_len(alg, known) ==
  LET hash_alg == hmac_alg_to_hash_alg(alg)
  IN IF ~hash_alg.ok THEN Err(hash_alg.err)
     ELSE hash_alg_to_hash_len(hash_alg.val, known)

\* mutant: `data.len() as u32`, a truncating cast that never fails
u32_try_from_truncating(n) ==
  [ok |-> TRUE, val |-> [hi |-> n.hi % LIMB, lo |-> n.lo], err |-> "none"]

\* mutant: the bound compared with < instead of <=
u32_try_from_off_by_one(n) ==
  IF LenLeq(n, U32_MAX) /\ n # U32_MAX THEN [ok |-> TRUE, val |-> n, err |-> "none"]
  ELSE [ok |-> FALSE, val |-> usize(0), err |-> "TryFromIntError"]

\* mutant: the length clamped to u32::MAX instead of refused
u32_try_from_saturating(n) ==
  IF LenLeq(n, U32_MAX) THEN [ok |-> TRUE, val |-> n, err |-> "none"]
  ELSE [ok |-> TRUE, val |-> U32_MAX, err |-> "none"]

\* u32::try_from(data.len())
u32_try_from(n) ==
  IF LenLeq(n, U32_MAX) THEN [ok |-> TRUE, val |-> n, err |-> "none"]
  ELSE [ok |-> FALSE, val |-> usize(0), err |-> "TryFromIntError"]

\* `digest.len() as u32`
as_u32(n) == (((n \div LIMB) % LIMB) * LIMB) + (n % LIMB)

\* ------------------------------------------------------------------- state
Calls == 1..NCalls           \* the invocations of hmac() that may overlap
Handles == 1..MaxHandles
KeyLens == 0..MaxKeyLen
DataLens == {usize(0), usize(1), U32_MAX, LenSucc(U32_MAX)}
ProviderErrs == {"SEC_ERROR_INVALID_ARGS", "SEC_ERROR_LIBRARY_FAILURE"}

VARIABLES
  pc,           \* pc[c]: the program point of call c inside hmac()
  alg,          \* argument alg
  keyLen,       \* key.len()
  dataLen,      \* data.len()
  data_len,     \* local data_len: u32
  slot,         \* local slot: TRUE while the call holds its Slot reference
  sym_key,      \* local sym_key: key handle or NULL
  param,        \* local param: length of the empty SECItem, -1 before it is made
  context,      \* local context: context handle or NULL
  expected_len, \* local expected_len
  digest,       \* local digest: length of the Vec<u8>, -1 before allocation
  digest_len,   \* local digest_len: u32
  result,       \* what the call produced
  log,          \* log[c]: the collaborator calls made by the current call of c
  initialized,  \* crate::init(): the process-wide Once has run
  initCount,    \* how many times the initialization took effect
  slotRefs,     \* references held on the provider's internal slot
  keys,         \* provider: keys[h] = owner of key handle h, 0 when free
  ctxs,         \* provider: ctxs[h] = state of context handle h
  keyMat,       \* provider: keyMat[h] = the key bytes held by key handle h
  buf,          \* buf[c]: the contents of the local digest buffer
  pending       \* pending[c]: the outcome a call that is leaving will hand back

locals == <<data_len, slot, sym_key, param, context, expected_len, digest, digest_len>>
args == <<alg, keyLen, dataLen>>
provider == <<initialized, initCount, slotRefs, keys, ctxs>>
vars == <<pc, args, locals, result, log, provider, keyMat, buf, pending>>

FreeCtx ==
  [owner |-> 0, key |-> NULL, mech |-> 0, plen |-> 0, fed |-> FALSE, finalized |-> FALSE,
   data |-> <<>>]

\* Byte contents are kept symbolically.  Key and data bytes are fixed by their
\* length; a MAC value is named by what the provider computed it from: the
\* mechanism, the key bytes and the data fed, in order.
NoKey == -1
NoMac == [mech |-> 0, key |-> NoKey, data |-> <<>>]
\* a buffer of len bytes: its first `written` bytes are those of mac, the
\* rest still hold the initial fill
NoBuf == [len |-> -1, fill |-> "none", written |-> 0, mac |-> NoMac]
NoResult == [kind |-> "none", tag |-> 0, err |-> "none", bytes |-> NoBuf]
\* what a call that is leaving hmac() will hand back once its locals are dropped
NoPending == [res |-> NoResult, pc |-> "none"]

\* one collaborator call as the call log records it
Entry(op, ok, err, mech, key, ctx, len, owner) ==
  [op |-> op, ok |-> ok, err |-> err, mech |-> mech, key |-> key, ctx |-> ctx,
   len |-> len, owner |-> owner]
Z == usize(0)

Init ==
  /\ pc = [c \in Calls |-> "idle"]
  /\ alg = [c \in Calls |-> "HMAC_SHA2_256"]
  /\ keyLen = [c \in Calls |-> 0]
  /\ dataLen = [c \in Calls |-> usize(0)]
  /\ data_len = [c \in Calls |-> usize(0)]
  /\ slot = [c \in Calls |-> FALSE]
  /\ sym_key = [c \in Calls |-> NULL]
  /\ param = [c \in Calls |-> -1]
  /\ context = [c \in Calls |-> NULL]
  /\ expected_len = [c \in Calls |-> 0]
  /\ digest = [c \in Calls |-> -1]
  /\ digest_len = [c \in Calls |-> 0]
  /\ result = [c \in Calls |-> NoResult]
  /\ log = [c \in Calls |-> <<>>]
  /\ initialized = FALSE
  /\ initCount = 0
  /\ slotRefs = 0
  /\ keys = [h \in Handles |-> 0]
  /\ ctxs = [h \in Handles |-> FreeCtx]
  /\ keyMat = [h \in Handles |-> NoKey]
  /\ buf = [c \in Calls |-> NoBuf]
  /\ pending = [c \in Calls |-> NoPending]

\* ------------------------------------------------------------ scope exit
\* mutant: the key handle is taken out of its wrapper and never released
ScopeExitDrops_key_leaked(c) ==
  [context |-> context[c], sym_key |-> NULL, slot |-> slot[c]]

\* The handle-owning locals of hmac() that go out of scope when it returns or
\* unwinds; Rust drops them in reverse order of declaration.
ScopeExitDrops(c) ==
  [context |-> context[c], sym_key |-> sym_key[c], slot |-> slot[c]]

\* the local whose Drop runs next: the context, then the key, then the slot
NextDrop(c) ==
  LET d == ScopeExitDrops(c)
  IN IF d.context # NULL THEN "context"
     ELSE IF d.sym_key # NULL THEN "sym_key"
     ELSE IF d.slot THEN "slot"
     ELSE "none"

\* One step of leaving hmac() with outcome res towards program point newpc.
\* Each Drop is a provider call of its own (PK11_DestroyContext,
\* PK11_FreeSymKey, PK11_FreeSlot), so a step makes at most one of them: with
\* release it runs the next Drop, without it the step's provider call was the
\* one that failed.  The call is over, and res is handed back, in the step
\* after which no handle is held.  pm is the local param as the step finds it.
\* The digest buffer is declared last, so it is freed ahead of the first
\* Drop, unless it is the value being returned.
Leave(c, res, newpc, lg, release, pm) ==
  LET d == ScopeExitDrops(c)
      which == IF release THEN NextDrop(c) ELSE "none"
      rest == [context |-> IF which = "context" THEN NULL ELSE d.context,
               sym_key |-> IF which = "sym_key" THEN NULL ELSE d.sym_key,
               slot |-> IF which = "slot" THEN FALSE ELSE d.slot]
      over == rest.context = NULL /\ rest.sym_key = NULL /\ ~rest.slot
      freed == over \/ (which # "none" /\ res.kind # "ok")
      lg1 == CASE which = "context" ->
                    Append(lg, Entry("PK11_DestroyContext", TRUE, "none", 0, NULL,
                                     d.context, Z, ctxs[d.context].owner))
               [] which = "sym_key" ->
                    Append(lg, Entry("PK11_FreeSymKey", TRUE, "none", 0, d.sym_key,
                                     NULL, Z, keys[d.sym_key]))
               [] which = "slot" ->
                    Append(lg, Entry("PK11_FreeSlot", TRUE, "none", 0, NULL, NULL, Z, c))
               [] OTHER -> lg
  IN /\ log' = [log EXCEPT ![c] = lg1]
     /\ ctxs' = IF which = "context" THEN [ctxs EXCEPT ![d.context] = FreeCtx] ELSE ctxs
     /\ keys' = IF which = "sym_key" THEN [keys EXCEPT ![d.sym_key] = 0] ELSE keys
     /\ keyMat' = IF which = "sym_key" THEN [keyMat EXCEPT ![d.sym_key] = NoKey] ELSE keyMat
     /\ slotRefs' = IF which = "slot" THEN slotRefs - 1 ELSE slotRefs
     /\ context' = [context EXCEPT ![c] = IF over \/ which = "context" THEN NULL ELSE @]
     /\ sym_key' = [sym_key EXCEPT ![c] = IF over \/ which = "sym_key" THEN NULL ELSE @]
     /\ slot' = [slot EXCEPT ![c] = IF over \/ which = "slot" THEN FALSE ELSE @]
     /\ buf' = [buf EXCEPT ![c] = IF freed THEN NoBuf ELSE @]
     /\ digest' = [digest EXCEPT ![c] = IF freed THEN -1 ELSE @]
     /\ param' = [param EXCEPT ![c] = IF over THEN -1 ELSE pm]
     /\ IF over
        THEN /\ result' = [result EXCEPT ![c] = res]
             /\ pc' = [pc EXCEPT ![c] = newpc]
             /\ pending' = [pending EXCEPT ![c] = NoPending]
        ELSE /\ pc' = [pc EXCEPT ![c] = "leaving"]
             /\ pending' = [pending EXCEPT ![c] = [res |-> res, pc |-> newpc]]
             /\ UNCHANGED result

\* Leaving from a point where no provider call is in progress: the step runs
\* the first Drop.
Exit(c, res, newpc, lg) == Leave(c, res, newpc, lg, TRUE, param[c])

\* Leaving through `?` on a provider call that failed: the step is that call.
FailedCall(c, res, newpc, lg) == Leave(c, res, newpc, lg, FALSE, param[c])

ErrResult(e) == [kind |-> "err", tag |-> 0, err |-> e, bytes |-> NoBuf]
OkResult(t) == [kind |-> "ok", tag |-> t, err |-> "none", bytes |-> NoBuf]
PanicResult == [kind |-> "panic", tag |-> 0, err |-> "none", bytes |-> NoBuf]

ExitRest == UNCHANGED <<args, data_len, expected_len, digest_len, initialized, initCount>>

\* The output lengths the provider may report at finalize for a buffer of
\* capacity cap.
ReportedLens(cap) == {n \in {cap - 1, cap, cap + 1} : n >= 0}

\* mutant: the buffer allocated one byte short
DigestAlloc_one_short(n) == n - 1

\* `vec![0u8; expected_len]`: the length of the allocated digest buffer
DigestAlloc(n) == n

\* `vec![0u8; n]`: the contents of the freshly allocated digest buffer
ZeroFilled(n) == [len |-> n, fill |-> "zero", written |-> 0, mac |-> NoMac]

\* The MAC the provider computes in context x: over the data fed to x, under
\* the key bytes and the mechanism x was created with.
MacOf(x) == [mech |-> ctxs[x].mech, key |-> keyMat[ctxs[x].key], data |-> ctxs[x].data]

\* PK11_DigestFinal's output: n bytes of the MAC m reported, of which at most
\* the capacity cap is stored into the buffer b.
Written(b, m, n, cap) ==
  [b EXCEPT !.written = IF n <= cap THEN n ELSE cap, !.mac = m]

\* the mechanism argument of PK11_ImportSymKey
ImportMech(a) == hmac_alg_to_ckm(a)

\* mutant: the context is always created for CKM_SHA256_HMAC
CreateContextMech_fixed(a) == Ok(CKM_SHA256_HMAC)

\* the mechanism argument of PK11_CreateContextBySymKey
CreateContextMech(a) == hmac_alg_to_ckm(a)

\* `SECItemBorrowed::make_empty()`: the length of the mechanism parameter
make_empty == 0

\* mutant: one context kept in a process-wide slot and used by every call
ContextArg_shared(c) ==
  IF \E h \in Handles : ctxs[h].owner # 0
  THEN CHOOSE h \in Handles : ctxs[h].owner # 0 /\ \A g \in Handles : ctxs[g].owner # 0 => h <= g
  ELSE NULL

\* the context handle `*context` passed to PK11_DigestOp and PK11_DigestFinal
ContextArg(c) == context[c]

\* ---------------------------------------------------------------- actions
\* A caller invokes hmac(alg, key, data).
Call(c, algs, klens, dlens) ==
  /\ pc[c] \in {"idle", "done"}
  /\ \E a \in algs, k \in klens, d \in dlens :
       /\ alg' = [alg EXCEPT ![c] = a]
       /\ keyLen' = [keyLen EXCEPT ![c] = k]
       /\ dataLen' = [dataLen EXCEPT ![c] = d]
  /\ pc' = [pc EXCEPT ![c] = "init"]
  /\ result' = [result EXCEPT ![c] = NoResult]
  /\ log' = [log EXCEPT ![c] = <<>>]
  /\ data_len' = [data_len EXCEPT ![c] = usize(0)]
  /\ expected_len' = [expected_len EXCEPT ![c] = 0]
  /\ digest_len' = [digest_len EXCEPT ![c] = 0]
  /\ UNCHANGED <<pending, keyMat, buf, slot, sym_key, param, context, digest, provider>>

\* mutant: the call of crate::init() left out of hmac()
crate_init_omitted(c) ==
  /\ pc[c] = "init"
  /\ pc' = [pc EXCEPT ![c] = "try_from"]
  /\ UNCHANGED <<pending, keyMat, buf, args, locals, result, log, provider>>

\* crate::init();
crate_init(c) ==
  /\ pc[c] = "init"
  /\ initialized' = TRUE
  /\ initCount' = IF initialized THEN initCount ELSE initCount + 1
  /\ log' = [log EXCEPT ![c] =
               Append(@, Entry("init", TRUE, "none", 0, NULL, NULL, Z, c))]
  /\ pc' = [pc EXCEPT ![c] = "try_from"]
  /\ UNCHANGED <<pending, keyMat, buf, args, locals, result, slotRefs, keys, ctxs>>

\* mutant: an added guard that refuses an empty key or empty data
try_from_rejects_empty(c) ==
  /\ pc[c] = "try_from"
  /\ LET r == u32_try_from(dataLen[c])
     IN IF r.ok /\ keyLen[c] # 0 /\ dataLen[c] # usize(0)
        THEN /\ data_len' = [data_len EXCEPT ![c] = r.val]
             /\ pc' = [pc EXCEPT ![c] = "slot"]
             /\ UNCHANGED <<pending, keyMat, buf, args, slot, sym_key, param, context, expected_len,
                            digest, digest_len, result, log, provider>>
        ELSE /\ Exit(c, ErrResult("InternalError"), "done", log[c])
             /\ ExitRest

\* let data_len = match u32::try_from(data.len()) { ... };
try_from(c) ==
  /\ pc[c] = "try_from"
  /\ LET r == u32_try_from(dataLen[c])
     IN IF r.ok
        THEN /\ data_len' = [data_len EXCEPT ![c] = r.val]
             /\ pc' = [pc EXCEPT ![c] = "slot"]
             /\ UNCHANGED <<pending, keyMat, buf, args, slot, sym_key, param, context, expected_len,
                            digest, digest_len, result, log, provider>>
        ELSE /\ Exit(c, ErrResult("InternalError"), "done", log[c])
             /\ ExitRest

\* let slot = Slot::internal()?;
Slot_internal(c) ==
  /\ pc[c] = "slot"
  /\ \/ /\ slot' = [slot EXCEPT ![c] = TRUE]
        /\ slotRefs' = slotRefs + 1
        /\ log' = [log EXCEPT ![c] =
                     Append(@, Entry("Slot::internal", TRUE, "none", 0, NULL, NULL, Z, c))]
        /\ pc' = [pc EXCEPT ![c] = "import"]
        /\ UNCHANGED <<pending, keyMat, buf, args, data_len, sym_key, param, context, expected_len,
                       digest, digest_len, result, initialized, initCount, keys, ctxs>>
     \/ \E e \in ProviderErrs :
          /\ FailedCall(c, ErrResult(e), "done",
                        Append(log[c], Entry("Slot::internal", FALSE, e, 0, NULL, NULL, Z, c)))
          /\ ExitRest

\* let sym_key = PK11_ImportSymKey(*slot, hmac_alg_to_ckm(&alg)?, ..., key, null).into_result()?;
ImportSymKey(c) ==
  /\ pc[c] = "import"
  /\ LET mech == ImportMech(alg[c])
     IN IF ~mech.ok
        THEN Exit(c, ErrResult(mech.err), "done", log[c]) /\ ExitRest
        ELSE \/ \E h \in Handles :
                  /\ keys[h] = 0
                  /\ keys' = [keys EXCEPT ![h] = c]
                  /\ keyMat' = [keyMat EXCEPT ![h] = keyLen[c]]
                  /\ sym_key' = [sym_key EXCEPT ![c] = h]
                  /\ log' = [log EXCEPT ![c] =
                               Append(@, Entry("PK11_ImportSymKey", TRUE, "none",
                                               mech.val, h, NULL, usize(keyLen[c]), c))]
                  /\ pc' = [pc EXCEPT ![c] = "create"]
                  /\ UNCHANGED <<pending, buf, args, data_len, slot, param, context, expected_len,
                                 digest, digest_len, result, initialized, initCount,
                                 slotRefs, ctxs>>
             \/ \E e \in ProviderErrs :
                  /\ FailedCall(c, ErrResult(e), "done",
                                Append(log[c], Entry("PK11_ImportSymKey", FALSE, e,
                                                     mech.val, NULL, NULL, usize(keyLen[c]), c)))
                  /\ ExitRest

\* let param = SECItemBorrowed::make_empty();
\* let context = PK11_CreateContextBySymKey(hmac_alg_to_ckm(&alg)?, CKA_SIGN,
\*                                          *sym_key, param.as_ref()).into_result()?;
CreateContextBySymKey(c) ==
  /\ pc[c] = "create"
  /\ LET mech == CreateContextMech(alg[c])
         k == sym_key[c]
     IN IF ~mech.ok
        THEN Exit(c, ErrResult(mech.err), "done", log[c]) /\ ExitRest
        ELSE \/ \E h \in Handles :
                  /\ ctxs[h].owner = 0
                  /\ ctxs' = [ctxs EXCEPT ![h] =
                                [owner |-> c, key |-> k, mech |-> mech.val,
                                 plen |-> make_empty, fed |-> FALSE, finalized |-> FALSE,
                                 data |-> <<>>]]
                  /\ context' = [context EXCEPT ![c] = h]
                  /\ param' = [param EXCEPT ![c] = make_empty]
                  /\ log' = [log EXCEPT ![c] =
                               Append(@, Entry("PK11_CreateContextBySymKey", TRUE, "none",
                                               mech.val, k, h, usize(make_empty), keys[k]))]
                  /\ pc' = [pc EXCEPT ![c] = "feed"]
                  /\ UNCHANGED <<pending, keyMat, buf, args, data_len, slot, sym_key, expected_len,
                                 digest, digest_len, result, initialized, initCount,
                                 slotRefs, keys>>
             \/ \E e \in ProviderErrs :
                  /\ Leave(c, ErrResult(e), "done",
                           Append(log[c], Entry("PK11_CreateContextBySymKey", FALSE, e,
                                                mech.val, k, NULL, usize(make_empty), keys[k])),
                           FALSE, make_empty)
                  /\ ExitRest

\* mutant: the status of PK11_DigestOp is dropped instead of propagated
DigestOp_status_ignored(c) ==
  /\ pc[c] = "feed"
  /\ LET x == ContextArg(c)
     IN /\ x # NULL
        /\ \E r \in {"none"} \cup ProviderErrs :
             /\ ctxs' = [ctxs EXCEPT ![x].fed = (r = "none"),
                                      ![x].data = IF r = "none" THEN Append(@, data_len[c])
                                                  ELSE @]
             /\ log' = [log EXCEPT ![c] =
                          Append(@, Entry("PK11_DigestOp", r = "none", r, 0, NULL, x,
                                          data_len[c], ctxs[x].owner))]
             /\ pc' = [pc EXCEPT ![c] = "len"]
             /\ UNCHANGED <<pending, keyMat, buf, args, locals, result, initialized, initCount, slotRefs, keys>>

\* mutant: the data is fed in two calls, one per half of the buffer
DigestOp_two_shots(c) ==
  /\ pc[c] = "feed"
  /\ LET x == ContextArg(c)
         e == Entry("PK11_DigestOp", TRUE, "none", 0, NULL, x, data_len[c], ctxs[x].owner)
     IN /\ x # NULL
        /\ ctxs' = [ctxs EXCEPT ![x].fed = TRUE,
                                 ![x].data = Append(Append(@, data_len[c]), data_len[c])]
        /\ log' = [log EXCEPT ![c] = Append(Append(@, e), e)]
        /\ pc' = [pc EXCEPT ![c] = "len"]
        /\ UNCHANGED <<pending, keyMat, buf, args, locals, result, initialized, initCount, slotRefs, keys>>

\* mutant: the feed goes to a context kept from an earlier or another call
DigestOp_stale_context(c) ==
  /\ pc[c] = "feed"
  /\ \E x \in Handles :
       /\ ctxs[x].owner # 0
       /\ ctxs' = [ctxs EXCEPT ![x].fed = TRUE, ![x].data = Append(@, data_len[c])]
       /\ log' = [log EXCEPT ![c] =
                    Append(@, Entry("PK11_DigestOp", TRUE, "none", 0, NULL, x,
                                    data_len[c], ctxs[x].owner))]
       /\ pc' = [pc EXCEPT ![c] = "len"]
       /\ UNCHANGED <<pending, keyMat, buf, args, locals, result, initialized, initCount,
                      slotRefs, keys>>

\* PK11_DigestOp(*context, data.as_ptr(), data_len).into_result()?;
DigestOp(c) ==
  /\ pc[c] = "feed"
  /\ LET x == ContextArg(c)
     IN /\ x # NULL
        /\ \/ /\ ctxs' = [ctxs EXCEPT ![x].fed = TRUE,
                                       ![x].data = Append(@, data_len[c])]
              /\ log' = [log EXCEPT ![c] =
                           Append(@, Entry("PK11_DigestOp", TRUE, "none", 0, NULL, x,
                                           data_len[c], ctxs[x].owner))]
              /\ pc' = [pc EXCEPT ![c] = "len"]
              /\ UNCHANGED <<pending, keyMat, buf, args, locals, result, initialized, initCount, slotRefs, keys>>
           \/ \E e \in ProviderErrs :
                /\ FailedCall(c, ErrResult(e), "done",
                              Append(log[c], Entry("PK11_DigestOp", FALSE, e, 0, NULL, x,
                                                   data_len[c], ctxs[x].owner)))
                /\ ExitRest

\* mutant: a failed length lookup replaced by a default instead of returned
hmac_len_unwrap_or_default(c) ==
  /\ pc[c] = "len"
  /\ \E known \in BOOLEAN :
       LET r == hmac_alg_to_hmac_len(alg[c], known)
           e == Entry("hash_alg_to_hash_len", r.ok, r.err, 0, NULL, NULL, usize(r.val), c)
       IN /\ expected_len' = [expected_len EXCEPT ![c] = r.val]
          /\ digest' = [digest EXCEPT ![c] = DigestAlloc(r.val)]
          /\ buf' = [buf EXCEPT ![c] = ZeroFilled(DigestAlloc(r.val))]
          /\ digest_len' = [digest_len EXCEPT ![c] = 0]
          /\ log' = [log EXCEPT ![c] = Append(@, e)]
          /\ pc' = [pc EXCEPT ![c] = "final"]
          /\ UNCHANGED <<pending, keyMat, args, data_len, slot, sym_key, param, context, result,
                         provider>>

\* let expected_len = hmac_alg_to_hmac_len(alg)?;
\* let mut digest = vec![0u8; expected_len];  let mut digest_len = 0u32;
hmac_len(c) ==
  /\ pc[c] = "len"
  /\ \E known \in BOOLEAN :
       LET r == hmac_alg_to_hmac_len(alg[c], known)
           e == Entry("hash_alg_to_hash_len", r.ok, r.err, 0, NULL, NULL, usize(r.val), c)
       IN IF r.ok
          THEN /\ expected_len' = [expected_len EXCEPT ![c] = r.val]
               /\ digest' = [digest EXCEPT ![c] = DigestAlloc(r.val)]
               /\ buf' = [buf EXCEPT ![c] = ZeroFilled(DigestAlloc(r.val))]
               /\ digest_len' = [digest_len EXCEPT ![c] = 0]
               /\ log' = [log EXCEPT ![c] = Append(@, e)]
               /\ pc' = [pc EXCEPT ![c] = "final"]
               /\ UNCHANGED <<pending, keyMat, args, data_len, slot, sym_key, param, context, result,
                              provider>>
          ELSE /\ FailedCall(c, ErrResult(r.err), "done", Append(log[c], e))
               /\ ExitRest

\* PK11_DigestFinal(*context, digest.as_mut_ptr(), &mut digest_len,
\*                  digest.len() as u32).into_result()?
DigestFinal(c) ==
  /\ pc[c] = "final"
  /\ LET x == ContextArg(c)
         cap == as_u32(digest[c])
     IN /\ x # NULL
        /\ \/ \E n \in ReportedLens(cap) :
                /\ digest_len' = [digest_len EXCEPT ![c] = n]
                /\ buf' = [buf EXCEPT ![c] = Written(@, MacOf(x), n, cap)]
                /\ ctxs' = [ctxs EXCEPT ![x].finalized = TRUE]
                /\ log' = [log EXCEPT ![c] =
                             Append(@, Entry("PK11_DigestFinal", TRUE, "none", 0, NULL, x,
                                             usize(cap), ctxs[x].owner))]
                /\ pc' = [pc EXCEPT ![c] = "assert"]
                /\ UNCHANGED <<pending, keyMat, args, data_len, slot, sym_key, param, context,
                               expected_len, digest, result, initialized, initCount,
                               slotRefs, keys>>
           \/ \E e \in ProviderErrs :
                /\ FailedCall(c, ErrResult(e), "done",
                              Append(log[c], Entry("PK11_DigestFinal", FALSE, e, 0, NULL, x,
                                                   usize(cap), ctxs[x].owner)))
                /\ ExitRest

\* mutant: only an overrun of the buffer is treated as a mismatch
lengths_agree_no_overrun(reported, expected) == reported <= expected

\* the comparison of `assert_eq!(digest_len as usize, expected_len)`
lengths_agree(reported, expected) == reported = expected

\* assert_eq!(digest_len as usize, expected_len);  Ok(digest)
assert_eq(c) ==
  /\ pc[c] = "assert"
  /\ IF lengths_agree(digest_len[c], expected_len[c])
     THEN Exit(c, [OkResult(digest[c]) EXCEPT !.bytes = buf[c]], "done", log[c])
     ELSE Exit(c, PanicResult, "panicked", log[c])
  /\ ExitRest

\* impl Drop for Context: PK11_DestroyContext(context, PR_TRUE)
drop_context(c) ==
  /\ pc[c] = "leaving"
  /\ NextDrop(c) = "context"
  /\ Exit(c, pending[c].res, pending[c].pc, log[c])
  /\ ExitRest

\* impl Drop for SymKey: PK11_FreeSymKey(sym_key)
drop_sym_key(c) ==
  /\ pc[c] = "leaving"
  /\ NextDrop(c) = "sym_key"
  /\ Exit(c, pending[c].res, pending[c].pc, log[c])
  /\ ExitRest

\* impl Drop for Slot: PK11_FreeSlot(slot)
drop_slot(c) ==
  /\ pc[c] = "leaving"
  /\ NextDrop(c) = "slot"
  /\ Exit(c, pending[c].res, pending[c].pc, log[c])
  /\ ExitRest

\* ---------------------------------------------------------- specifications
\* One caller at a time, every algorithm and every input length.
Next ==
  \E c \in {1} :
    \/ Call(c, HmacAlgorithm, KeyLens, DataLens)
    \/ crate_init(c)
    \/ try_from(c)
    \/ Slot_internal(c)
    \/ ImportSymKey(c)
    \/ CreateContextBySymKey(c)
    \/ DigestOp(c)
    \/ hmac_len(c)
    \/ DigestFinal(c)
    \/ assert_eq(c)
    \/ drop_context(c)
    \/ drop_sym_key(c)
    \/ drop_slot(c)

Spec == Init /\ [][Next]_vars

\* Overlapping callers of one fixed input: what varies is the interleaving and
\* the provider's outcomes.
ConcAlgs == {"HMAC_SHA3_384"}
ConcKeyLens == {MaxKeyLen}
ConcDataLens == {usize(1)}

\* The provider's answers are narrowed in the same way: a failure carries one
\* error code, and a finalize reports the expected length or one byte less.
ConcProvider ==
  \A c \in Calls :
    /\ result[c].err # "SEC_ERROR_LIBRARY_FAILURE"
    /\ pending[c].res.err # "SEC_ERROR_LIBRARY_FAILURE"
    /\ digest_len[c] <= expected_len[c]

\* the provider calls of the concurrent specification, with narrowed answers
ConcSlot_internal(c) == Slot_internal(c) /\ ConcProvider'
ConcImportSymKey(c) == ImportSymKey(c) /\ ConcProvider'
ConcCreateContextBySymKey(c) == CreateContextBySymKey(c) /\ ConcProvider'
ConcDigestOp(c) == DigestOp(c) /\ ConcProvider'
ConcDigestFinal(c) == DigestFinal(c) /\ ConcProvider'

NextConc ==
  \E c \in Calls :
    \/ Call(c, ConcAlgs, ConcKeyLens, ConcDataLens)
    \/ crate_init(c)
    \/ try_from(c)
    \/ ConcSlot_internal(c)
    \/ ConcImportSymKey(c)
    \/ ConcCreateContextBySymKey(c)
    \/ ConcDigestOp(c)
    \/ hmac_len(c)
    \/ ConcDigestFinal(c)
    \/ assert_eq(c)
    \/ drop_context(c)
    \/ drop_sym_key(c)
    \/ drop_slot(c)

SpecConc == Init /\ [][NextConc]_vars

TypeOK ==
  /\ pc \in [Calls -> {"idle", "init", "try_from", "slot", "import", "create",
                       "feed", "len", "final", "assert", "leaving", "done",
                       "panicked"}]
  /\ alg \in [Calls -> HmacAlgorithm]
  /\ \A c \in Calls : result[c].kind \in {"none", "ok", "err", "panic"}
  /\ \A c \in Calls : (pc[c] = "leaving") <=> (pending[c] # NoPending)

\* ------------------------------------------------------- claim vocabulary
\* the tag lengths the specification states: 32, 48, 64 bytes for the 256-,
\* 384- and 512-bit variants
ExpectedLengthOf(a) ==
  CASE a \in {"HMAC_SHA2_256", "HMAC_SHA3_256"} -> 32
    [] a \in {"HMAC_SHA2_384", "HMAC_SHA3_384"} -> 48
    [] a \in {"HMAC_SHA2_512", "HMAC_SHA3_512"} -> 64

ProviderSteps ==
  {"Slot::internal", "PK11_ImportSymKey", "PK11_CreateContextBySymKey",
   "PK11_DigestOp", "PK11_DigestFinal"}
PipelineSteps == ProviderSteps \cup {"hash_alg_to_hash_len"}
KeyedSteps ==
  {"PK11_ImportSymKey", "PK11_CreateContextBySymKey", "PK11_DigestOp", "PK11_DigestFinal"}
IsKeyedStep(e) == e.op \in KeyedSteps
OpNames(sq) == [i \in DOMAIN sq |-> sq[i].op]
Count(c, op) == Cardinality({i \in DOMAIN log[c] : log[c][i].op = op})
Made(c, op, ok) == \E i \in DOMAIN log[c] : log[c][i].op = op /\ log[c][i].ok = ok
TooLarge(n) == ~LenLeq(n, U32_MAX)
Started(c) == pc[c] \notin {"idle", "init", "try_from"}
\* the outcome of call c: what it returned, or what it is about to return
\* while its locals are still being dropped
Outcome(c) == IF pc[c] = "leaving" THEN pending[c].res ELSE result[c]

\* C1: whenever hmac returns successfully, the returned tag has exactly the
\* expected length of the algorithm (32, 48 or 64 bytes), whatever output
\* length the provider reported at finalize.
C1_TagHasExpectedLength ==
  \A c \in Calls :
    result[c].kind = "ok" => result[c].tag = ExpectedLengthOf(alg[c])

C1_Witness ==
  \E c \in Calls :
    /\ result[c].kind = "ok"
    /\ alg[c] = "HMAC_SHA3_384"
    /\ result[c].tag = 48
    /\ Made(c, "PK11_DigestFinal", TRUE)

\* C2: if a provider step fails (slot access, key import, context creation,
\* feed or finalize), the call returns an error carrying that failure: from
\* the failure on it is only releasing its handles or has returned, its
\* outcome is that error, no later step of the pipeline is invoked in that
\* call, and no tag is returned.
C2_FailureStopsPipeline ==
  \A c \in Calls : \A i \in DOMAIN log[c] :
    (log[c][i].op \in ProviderSteps /\ ~log[c][i].ok) =>
      /\ pc[c] \in {"leaving", "done"}
      /\ Outcome(c) = ErrResult(log[c][i].err)
      /\ result[c] \in {NoResult, ErrResult(log[c][i].err)}
      /\ \A j \in DOMAIN log[c] : j > i => log[c][j].op \notin PipelineSteps

C2_Witness ==
  \E c \in Calls :
    /\ Made(c, "PK11_ImportSymKey", FALSE)
    /\ result[c].kind = "err"
    /\ Count(c, "PK11_CreateContextBySymKey") = 0

\* C3 as stated: when data.len() does not fit in a u32, hmac returns an error
\* before any interaction with its collaborators, the process-wide
\* initialization included.
C3_NoInteractionAtAll ==
  \A c \in Calls :
    (TooLarge(dataLen[c]) /\ Started(c)) =>
      /\ pc[c] = "done"
      /\ result[c].kind = "err"
      /\ log[c] = <<>>

\* C3 amended: when data.len() does not fit in a u32, hmac returns
\* InternalError after the process-wide initialization has been requested and
\* before any slot access, key import, context creation, feed, length lookup
\* or finalize.
C3_OnlyInitBeforeRejection ==
  \A c \in Calls :
    (TooLarge(dataLen[c]) /\ Started(c)) =>
      /\ pc[c] = "done"
      /\ result[c] = ErrResult("InternalError")
      /\ OpNames(log[c]) = <<"init">>

C3_Witness ==
  \E c \in Calls :
    /\ dataLen[c] = LenSucc(U32_MAX)
    /\ pc[c] = "done"
    /\ result[c].kind = "err"
    /\ initialized

\* C4 as stated: a data length equal to the largest u32 value, or just above
\* it, is rejected with the input-too-large error instead of being processed.
C4_BoundaryRejected ==
  \A c \in Calls :
    (dataLen[c] \in {U32_MAX, LenSucc(U32_MAX)} /\ Started(c)) =>
      /\ pc[c] = "done"
      /\ result[c] = ErrResult("InternalError")

\* C4 amended: a data length just above the largest u32 value (2^32) is
\* rejected with InternalError, while a data length equal to the largest u32
\* value is not rejected locally: it is passed on unchanged and processed.
C4_RejectedOnlyAboveBoundary ==
  \A c \in Calls :
    Started(c) =>
      /\ dataLen[c] = LenSucc(U32_MAX) =>
           pc[c] = "done" /\ result[c] = ErrResult("InternalError")
      /\ dataLen[c] = U32_MAX =>
           /\ result[c].err # "InternalError"
           /\ data_len[c] = U32_MAX
           /\ \A i \in DOMAIN log[c] :
                log[c][i].op = "PK11_DigestOp" => log[c][i].len = U32_MAX

C4_Witness ==
  \E c \in Calls :
    /\ dataLen[c] = U32_MAX
    /\ result[c].kind = "ok"
    /\ Made(c, "PK11_DigestOp", TRUE)

\* C5: hmac never rejects a call locally because the key or the data is
\* empty: when the key and/or the data is empty (and the data length fits in
\* a u32, the one local check), every error the call returns is a failure a
\* collaborator reported, the key is imported with its zero length and the
\* feed is of zero bytes.
C5_EmptyInputsNotRejected ==
  \A c \in Calls :
    ((keyLen[c] = 0 \/ dataLen[c] = usize(0)) /\ ~TooLarge(dataLen[c])) =>
      /\ result[c].kind = "err" =>
           \E i \in DOMAIN log[c] : ~log[c][i].ok /\ log[c][i].err = result[c].err
      /\ \A i \in DOMAIN log[c] :
           /\ log[c][i].op = "PK11_ImportSymKey" => log[c][i].len = usize(keyLen[c])
           /\ log[c][i].op = "PK11_DigestOp" => log[c][i].len = dataLen[c]

C5_Witness ==
  \E c \in Calls :
    /\ keyLen[c] = 0
    /\ dataLen[c] = usize(0)
    /\ result[c].kind = "ok"
    /\ OpNames(SelectSeq(log[c], IsKeyedStep)) =
         <<"PK11_ImportSymKey", "PK11_CreateContextBySymKey", "PK11_DigestOp",
           "PK11_DigestFinal">>

\* C6: if finalize succeeds but reports an output length different from the
\* expected length of the algorithm, hmac returns neither a tag nor an error:
\* the call ends in a panic.
C6_MismatchPanics ==
  \A c \in Calls :
    (/\ Made(c, "PK11_DigestFinal", TRUE)
     /\ digest_len[c] # ExpectedLengthOf(alg[c])
     /\ pc[c] # "assert") =>
      /\ pc[c] \in {"leaving", "panicked"}
      /\ Outcome(c) = PanicResult
      /\ result[c] \in {NoResult, PanicResult}

C6_Witness ==
  \E c \in Calls :
    /\ pc[c] = "panicked"
    /\ Made(c, "PK11_DigestFinal", TRUE)
    /\ digest_len[c] = ExpectedLengthOf(alg[c]) - 1

\* C7: on every exit path of hmac (success, an error at any step, the late
\* failure of the expected-length lookup, the length-mismatch panic) no key
\* handle, signing context or slot reference acquired by the call is still
\* held once the call has ended.  The releases are provider calls of their
\* own, made one by one while the call is leaving: until then a handle of the
\* call is held exactly as long as the call's local still refers to it.
C7_HandlesReleasedOnExit ==
  /\ slotRefs = Cardinality({c \in Calls : slot[c]})
  /\ \A c \in Calls : \A h \in Handles :
       /\ keys[h] = c <=> sym_key[c] = h
       /\ ctxs[h].owner = c <=> context[c] = h
  /\ \A c \in Calls :
       pc[c] \in {"idle", "done", "panicked"} =>
         /\ \A h \in Handles : keys[h] # c /\ ctxs[h].owner # c
         /\ sym_key[c] = NULL /\ context[c] = NULL /\ ~slot[c]
         /\ Made(c, "PK11_ImportSymKey", TRUE) <=> Made(c, "PK11_FreeSymKey", TRUE)
         /\ Made(c, "PK11_CreateContextBySymKey", TRUE)
              <=> Made(c, "PK11_DestroyContext", TRUE)
         /\ Made(c, "Slot::internal", TRUE) <=> Made(c, "PK11_FreeSlot", TRUE)

C7_Witness ==
  \E c \in Calls :
    /\ pc[c] = "done"
    /\ Made(c, "hash_alg_to_hash_len", FALSE)
    /\ Made(c, "PK11_DestroyContext", TRUE)
    /\ Made(c, "PK11_FreeSymKey", TRUE)
    /\ \A h \in Handles : keys[h] = 0 /\ ctxs[h].owner = 0

\* C8: a successful call makes exactly one key import, then one context
\* creation, then one data feed, then one finalize, in that order; on any
\* call each of these is invoked at most once, and nothing is fed or
\* finalized after the finalize.
C8_OneOfEachInOrder ==
  \A c \in Calls :
    /\ result[c].kind = "ok" =>
         OpNames(SelectSeq(log[c], IsKeyedStep)) =
           <<"PK11_ImportSymKey", "PK11_CreateContextBySymKey", "PK11_DigestOp",
             "PK11_DigestFinal">>
    /\ \A op \in KeyedSteps : Count(c, op) <= 1
    /\ \A i, j \in DOMAIN log[c] :
         (log[c][i].op = "PK11_DigestFinal" /\ j > i) =>
           log[c][j].op \notin {"PK11_DigestOp", "PK11_DigestFinal"}

C8_Witness ==
  \E c \in Calls :
    /\ result[c].kind = "ok"
    /\ Count(c, "PK11_DigestOp") = 1
    /\ Count(c, "PK11_DigestFinal") = 1
    /\ dataLen[c] = usize(1)

\* C9: the signing context is created from the key handle imported earlier
\* in the same call, with the mechanism code used for that import, which is
\* the code the resolver maps the requested algorithm to, and with an empty
\* mechanism parameter.
C9_ContextBoundToImportedKey ==
  \A c \in Calls : \A i \in DOMAIN log[c] :
    log[c][i].op = "PK11_CreateContextBySymKey" =>
      /\ \E j \in DOMAIN log[c] :
           /\ j < i
           /\ log[c][j].op = "PK11_ImportSymKey"
           /\ log[c][j].ok
           /\ log[c][j].key = log[c][i].key
           /\ log[c][j].mech = log[c][i].mech
      /\ log[c][i].key # NULL
      /\ log[c][i].mech = hmac_alg_to_ckm(alg[c]).val
      /\ log[c][i].len = usize(0)
      /\ (log[c][i].ok /\ context[c] # NULL) =>
           /\ ctxs[context[c]].key = log[c][i].key
           /\ ctxs[context[c]].mech = log[c][i].mech
           /\ ctxs[context[c]].plen = 0

C9_Witness ==
  \E c \in Calls :
    /\ alg[c] = "HMAC_SHA3_512"
    /\ Made(c, "PK11_CreateContextBySymKey", TRUE)
    /\ context[c] # NULL
    /\ ctxs[context[c]].mech = CKM_SHA3_512_HMAC

\* C10: when several hmac calls overlap, each call feeds, finalizes and
\* releases only the key and context it acquired itself, in any interleaving.
C10_CallsUseOwnHandles ==
  \A c \in Calls :
    /\ \A i \in DOMAIN log[c] :
         log[c][i].op \in {"PK11_CreateContextBySymKey", "PK11_DigestOp",
                           "PK11_DigestFinal", "PK11_DestroyContext",
                           "PK11_FreeSymKey"} => log[c][i].owner = c
    /\ sym_key[c] # NULL => keys[sym_key[c]] = c
    /\ context[c] # NULL =>
         ctxs[context[c]].owner = c /\ ctxs[context[c]].key = sym_key[c]
    /\ \A d \in Calls \ {c} :
         /\ sym_key[c] # NULL => sym_key[c] # sym_key[d]
         /\ context[c] # NULL => context[c] # context[d]

C10_Witness ==
  \E c, d \in Calls :
    /\ c # d
    /\ pc[c] = "leaving" /\ sym_key[c] # NULL
    /\ context[d] # NULL
    /\ Made(d, "PK11_DigestOp", TRUE)
    /\ \E i \in DOMAIN log[c] :
         log[c][i].op = "PK11_DestroyContext" /\ log[c][i].ctx = context[d]

\* C11: the process-wide initialization takes effect exactly once however
\* many calls run and however they interleave, and in every call it has
\* completed before that call's first slot, key, context, feed or finalize
\* call.
C11_InitOnceAndFirst ==
  /\ initCount = (IF initialized THEN 1 ELSE 0)
  /\ \A c \in Calls :
       /\ Started(c) \/ log[c] # <<>> => initialized /\ initCount = 1
       /\ \A i \in DOMAIN log[c] :
            log[c][i].op \in PipelineSteps =>
              /\ i > 1
              /\ log[c][1].op = "init"
              /\ initialized
       /\ Count(c, "init") <= 1

C11_Witness ==
  \E c, d \in Calls :
    /\ c # d
    /\ Made(c, "init", TRUE) /\ Made(d, "init", TRUE)
    /\ Made(c, "PK11_DigestFinal", TRUE)
    /\ Made(d, "Slot::internal", TRUE)
    /\ pc[d] = "import"
    /\ initCount = 1

\* C12: the resolver functions are total over the six variants: the
\* mechanism and hash-identity mappings return a defined value and never an
\* error, distinct variants get distinct mechanism codes and distinct hash
\* identities, and the expected length is defined whenever the length lookup
\* knows the mapped hash identity.
C12_ResolversTotalAndInjective ==
  \A c \in Calls :
    LET a == alg[c]
    IN /\ hmac_alg_to_ckm(a).ok
       /\ hmac_alg_to_hash_alg(a).ok
       /\ hmac_alg_to_hash_alg(a).val \in HashAlgorithm
       /\ \A b \in HmacAlgorithm \ {a} :
            /\ hmac_alg_to_ckm(b).ok /\ hmac_alg_to_hash_alg(b).ok
            /\ hmac_alg_to_ckm(b).val # hmac_alg_to_ckm(a).val
            /\ hmac_alg_to_hash_alg(b).val # hmac_alg_to_hash_alg(a).val
       /\ hmac_alg_to_hmac_len(a, TRUE).ok
       /\ hmac_alg_to_hmac_len(a, TRUE).val > 0
       /\ \A i \in DOMAIN log[c] :
            /\ log[c][i].op = "PK11_ImportSymKey" =>
                 log[c][i].mech \in
                   {CKM_SHA256_HMAC, CKM_SHA384_HMAC, CKM_SHA512_HMAC,
                    CKM_SHA3_256_HMAC, CKM_SHA3_384_HMAC, CKM_SHA3_512_HMAC}
                   \ {hmac_alg_to_ckm(b).val : b \in HmacAlgorithm \ {a}}
            /\ (log[c][i].op = "hash_alg_to_hash_len" /\ ~log[c][i].ok) =>
                 log[c][i].err = "UnsupportedAlgorithm"
       /\ (result[c].kind = "err" /\ \A i \in DOMAIN log[c] : log[c][i].ok) =>
            TooLarge(dataLen[c])

C12_Witness ==
  \E c \in Calls :
    /\ alg[c] = "HMAC_SHA3_512"
    /\ \E i \in DOMAIN log[c] :
         /\ log[c][i].op = "PK11_ImportSymKey"
         /\ log[c][i].mech = CKM_SHA3_512_HMAC
    /\ \E i \in DOMAIN log[c] :
         /\ log[c][i].op = "hash_alg_to_hash_len"
         /\ log[c][i].ok
         /\ log[c][i].len = usize(64)

\* what the collaborators answered to call c, handle identities left out
Outcomes(c) ==
  [i \in DOMAIN log[c] |-> <<log[c][i].op, log[c][i].ok, log[c][i].err>>]
Ended(c) == pc[c] \in {"done", "panicked"} /\ result[c].kind # "none"

\* the tag of hmac(a, key, data): the whole MAC of the data under the key and
\* the mechanism of a, filling a buffer of the expected length
TagOf(a, k, d) ==
  [len |-> ExpectedLengthOf(a), fill |-> "zero", written |-> ExpectedLengthOf(a),
   mac |-> [mech |-> hmac_alg_to_ckm(a).val, key |-> k, data |-> <<d>>]]

\* C13: for a fixed algorithm, key and data and a provider that answers the
\* same to the same requests, two calls to hmac return identical results,
\* whatever calls ran earlier or run at the same time: a returned tag is a
\* function of the call's own arguments alone.
C13_SameInputsSameResult ==
  /\ \A c, d \in Calls :
       (/\ Ended(c) /\ Ended(d)
        /\ alg[c] = alg[d] /\ keyLen[c] = keyLen[d] /\ dataLen[c] = dataLen[d]
        /\ Outcomes(c) = Outcomes(d)
        /\ digest_len[c] = digest_len[d]) =>
         result[c] = result[d]
  /\ \A c \in Calls :
       result[c].kind = "ok" =>
         result[c].bytes = TagOf(alg[c], keyLen[c], dataLen[c])

C13_Witness ==
  \E c, d \in Calls :
    /\ c # d
    /\ result[c].kind = "ok" /\ result[d].kind = "ok"
    /\ result[c].bytes = result[d].bytes
    /\ result[c].bytes.written = 48
    /\ result[c].bytes.mac.data = <<usize(1)>>

\* C14: whenever hmac invokes the data feed, the length it passes equals the
\* length of data exactly and the feed covers the whole buffer in one call:
\* the length is never truncated or reduced modulo 2^32.
C14_FeedLengthIsDataLength ==
  \A c \in Calls :
    /\ \A i \in DOMAIN log[c] :
         log[c][i].op = "PK11_DigestOp" =>
           /\ log[c][i].len = dataLen[c]
           /\ LenLeq(dataLen[c], U32_MAX)
    /\ Count(c, "PK11_DigestOp") <= 1
    /\ pc[c] \in {"slot", "import", "create", "feed", "len", "final", "assert"} =>
         data_len[c] = dataLen[c]

C14_Witness ==
  \E c \in Calls :
    /\ dataLen[c] = U32_MAX
    /\ \E i \in DOMAIN log[c] :
         log[c][i].op = "PK11_DigestOp" /\ log[c][i].len = U32_MAX

\* C15: whenever hmac invokes finalize, the capacity it reports equals the
\* length of the digest buffer it allocated, which equals the expected length
\* of the algorithm; the provider is never told a capacity larger than the
\* buffer.
C15_CapacityIsBufferLength ==
  \A c \in Calls :
    /\ pc[c] \in {"final", "assert"} =>
         /\ digest[c] = expected_len[c]
         /\ digest[c] = ExpectedLengthOf(alg[c])
    /\ \A i \in DOMAIN log[c] :
         log[c][i].op = "PK11_DigestFinal" =>
           /\ log[c][i].len = usize(expected_len[c])
           /\ log[c][i].len = usize(ExpectedLengthOf(alg[c]))
           /\ pc[c] = "assert" => log[c][i].len = usize(digest[c])

C15_Witness ==
  \E c \in Calls :
    /\ alg[c] = "HMAC_SHA2_384"
    /\ pc[c] = "assert"
    /\ digest[c] = 48
    /\ \E i \in DOMAIN log[c] :
         log[c][i].op = "PK11_DigestFinal" /\ log[c][i].len = usize(48)

\* C16: the expected-length lookup is performed only after key import,
\* context creation and data feed have succeeded; if the lookup fails, hmac
\* returns an error without invoking finalize and without returning a tag.
C16_LookupAfterFeedAndFailureReturns ==
  \A c \in Calls : \A i \in DOMAIN log[c] :
    log[c][i].op = "hash_alg_to_hash_len" =>
      /\ \E j, k, l \in 1..(i - 1) :
           /\ j < k /\ k < l
           /\ log[c][j].op = "PK11_ImportSymKey" /\ log[c][j].ok
           /\ log[c][k].op = "PK11_CreateContextBySymKey" /\ log[c][k].ok
           /\ log[c][l].op = "PK11_DigestOp" /\ log[c][l].ok
      /\ \A j \in 1..(i - 1) : log[c][j].op # "PK11_DigestFinal"
      /\ ~log[c][i].ok =>
           /\ pc[c] \in {"leaving", "done"}
           /\ Outcome(c) = ErrResult(log[c][i].err)
           /\ result[c] \in {NoResult, ErrResult(log[c][i].err)}
           /\ Count(c, "PK11_DigestFinal") = 0

C16_Witness ==
  \E c \in Calls :
    /\ Made(c, "hash_alg_to_hash_len", FALSE)
    /\ Made(c, "PK11_DigestOp", TRUE)
    /\ result[c].kind = "err"
    /\ Count(c, "PK11_DigestFinal") = 0

====
